---- MODULE Spec2Model ----
(***************************************************************************)
(* Model of the weekly ticket dashboard (src/app.py): the module-level     *)
(* load (lines 33-49) and the Dash callback update_chart (lines 89-138).   *)
(*                                                                         *)
(* Strings are sequences of character codes, so that Python's string       *)
(* order (sorted, sort_values on labels and names) is the lexicographic    *)
(* order of the codes and the week label "YYYY-Www" is really formatted    *)
(* and parsed.  A timestamp is <<day, tod>>: day counts days from Monday   *)
(* 2023-12-25, tod is the time of day (0 = 00:00, 1 = 12:00).              *)
(***************************************************************************)
EXTENDS Integers, Sequences, FiniteSets

VARIABLES raw, phase, combined_df, assignment_groups, unique_weeks,
          unique_people, req

vars == <<raw, phase, combined_df, assignment_groups, unique_weeks,
          unique_people, req>>

base == <<combined_df, assignment_groups, unique_weeks, unique_people>>

(***************************************************************************)
(* Bounds.                                                                 *)
(***************************************************************************)
MaxRows == 2

(***************************************************************************)
(* Strings.                                                                *)
(***************************************************************************)
EmptyStr == <<>>

\* "A", "B", "X", "Z"
NameA == <<65>>
NameB == <<66>>
GroupX == <<88>>
GroupZ == <<90>>

\* 'Unassigned' (line 34) and 'Unknown' (line 35)
Unassigned == <<85, 110, 97, 115, 115, 105, 103, 110, 101, 100>>
Unknown == <<85, 110, 107, 110, 111, 119, 110>>

\* Python's < on str: lexicographic on code points.
RECURSIVE StrLess(_, _)
StrLess(s, t) ==
    IF s = <<>> THEN t /= <<>>
    ELSE IF t = <<>> THEN FALSE
    ELSE IF Head(s) = Head(t) THEN StrLess(Tail(s), Tail(t))
    ELSE Head(s) < Head(t)

\* sorted(...) of a collection of distinct strings.
RECURSIVE SortedStrings(_)
SortedStrings(S) ==
    IF S = {} THEN <<>>
    ELSE LET m == CHOOSE x \in S : \A y \in S : x = y \/ StrLess(x, y)
         IN  <<m>> \o SortedStrings(S \ {m})

\* astype(str) of a non-negative integer.
RECURSIVE IntToStr(_)
IntToStr(n) ==
    IF n < 10 THEN <<48 + n>>
    ELSE IntToStr(n \div 10) \o <<48 + (n % 10)>>

\* str.zfill(width)
RECURSIVE ZFill(_, _)
ZFill(s, width) ==
    IF Len(s) >= width THEN s ELSE ZFill(<<48>> \o s, width)

\* int(...) of a string of digits.
RECURSIVE StrToInt(_)
StrToInt(s) ==
    IF s = <<>> THEN 0
    ELSE 10 * StrToInt(SubSeq(s, 1, Len(s) - 1)) + (s[Len(s)] - 48)

SeqToSet(s) == {s[i] : i \in 1..Len(s)}

(***************************************************************************)
(* The Gregorian and ISO-8601 calendars on day numbers.                    *)
(***************************************************************************)
IsLeap(y) == (y % 4 = 0 /\ y % 100 /= 0) \/ y % 400 = 0

DaysInYear(y) == IF IsLeap(y) THEN 366 ELSE 365

\* Day number of January 1st of year y (2024-01-01 is day 7).
RECURSIVE YearStart(_)
YearStart(y) ==
    IF y = 2024 THEN 7
    ELSE IF y > 2024 THEN YearStart(y - 1) + DaysInYear(y - 1)
    ELSE YearStart(y + 1) - DaysInYear(y)

RECURSIVE YearFrom(_, _)
YearFrom(d, y) ==
    IF d < YearStart(y) THEN YearFrom(d, y - 1)
    ELSE IF d >= YearStart(y + 1) THEN YearFrom(d, y + 1)
    ELSE y

GregorianYear(d) == YearFrom(d, 2024)

DayOfYear(d) == d - YearStart(GregorianYear(d)) + 1

\* datetime.weekday(): Monday is 0.
Weekday(d) == d % 7

\* .dt.isocalendar(): the ISO year and week are those of the week's Thursday.
IsoCalendar(d) ==
    LET thu == d - Weekday(d) + 3
    IN  [year |-> GregorianYear(thu), week |-> (DayOfYear(thu) - 1) \div 7 + 1]

\* year.astype(str) + '-W' + week.astype(str).str.zfill(2)
WeekLabel(d) ==
    LET iso == IsoCalendar(d)
    IN  IntToStr(iso.year) \o <<45, 87>> \o ZFill(IntToStr(iso.week), 2)

\* Position of the first '-' of a label.
RECURSIVE DashPos(_, _)
DashPos(s, i) ==
    IF i > Len(s) THEN i ELSE IF s[i] = 45 THEN i ELSE DashPos(s, i + 1)

\* WeekToDate with the ISO year of the label dropped: only the week number
\* orders the weeks.
WeekToDateNoYear(label) ==
    7 * (StrToInt(SubSeq(label, DashPos(label, 1) + 2, Len(label))) - 1)

\* pd.to_datetime(label + "-1", format="%G-W%V-%u"): the Monday of ISO week
\* %V of ISO year %G, which is the Monday of the week of January 4th plus
\* (%V - 1) weeks.
WeekToDate(label) ==
    LET p    == DashPos(label, 1)
        yr   == StrToInt(SubSeq(label, 1, p - 1))
        wk   == StrToInt(SubSeq(label, p + 2, Len(label)))
        jan4 == YearStart(yr) + 3
    IN  jan4 - Weekday(jan4) + 7 * (wk - 1)

(***************************************************************************)
(* Timestamps.                                                             *)
(***************************************************************************)
NaT == <<>>

TsLeq(a, b) == a[1] < b[1] \/ (a[1] = b[1] /\ a[2] <= b[2])

MinTs(S) == CHOOSE a \in S : \A b \in S : TsLeq(a, b)
MaxTs(S) == CHOOSE a \in S : \A b \in S : TsLeq(b, a)

\* Week(weekday=0).rollforward / rollback: the time of day is kept.
RollForward(t) ==
    IF Weekday(t[1]) = 0 THEN t ELSE <<t[1] + (7 - Weekday(t[1])), t[2]>>

RollBack(t) == <<t[1] - Weekday(t[1]), t[2]>>

RECURSIVE GenerateRange(_, _)
GenerateRange(cur, end) ==
    IF TsLeq(cur, end)
    THEN <<cur>> \o (IF cur = end THEN <<>>
                     ELSE GenerateRange(<<cur[1] + 7, cur[2]>>, end))
    ELSE <<>>

\* pd.date_range(start, end, freq='W-MON')
DateRange(start, end) == GenerateRange(RollForward(start), RollBack(end))

(***************************************************************************)
(* The input: the rows of the two CSV files after the concat of line 33,   *)
(* projected on the three columns of lines 25-26.  An empty text cell is   *)
(* read as NaN; an opened_at cell is a timestamp or text that does not     *)
(* parse.  The 'source' column (lines 29-30) is never read and is left     *)
(* out.                                                                    *)
(***************************************************************************)
NaN == EmptyStr

BadDate == <<>>

\* Mon 2023-12-25 12:00 (2023-W52), Wed 2024-01-03 00:00 (2024-W01),
\* Mon 2024-01-15 00:00 (2024-W03), Wed 2024-01-17 00:00 (2024-W03)
Times == {<<0, 1>>, <<9, 0>>, <<21, 0>>, <<23, 0>>}

RawRows ==
    [assigned_to : {NameA, NameB, NaN},
     assignment_group : {GroupX, NaN},
     opened_at : Times \cup {BadDate}]

RECURSIVE SeqsUpTo(_, _)
SeqsUpTo(S, n) ==
    IF n = 0 THEN {<<>>}
    ELSE LET shorter == SeqsUpTo(S, n - 1)
         IN  shorter \cup {Append(q, x) : q \in {t \in shorter : Len(t) = n - 1}, x \in S}

RawDatasets == SeqsUpTo(RawRows, MaxRows)

(***************************************************************************)
(* Module-level load, lines 33-49.                                         *)
(***************************************************************************)
\* fillna (lines 34-35)
FillNa(cell, default) == IF cell = NaN THEN default ELSE cell

\* pd.to_datetime(..., errors='coerce') (line 36)
ToDatetime(cell) == IF cell \in Times THEN cell ELSE NaT

\* lines 34-37: fill the missing names, parse the dates, drop the rows
\* whose date did not parse.
Normalize(rows) ==
    LET parsed == [i \in 1..Len(rows) |->
                     [assigned_to      |-> FillNa(rows[i].assigned_to, Unassigned),
                      assignment_group |-> FillNa(rows[i].assignment_group, Unknown),
                      opened_at        |-> ToDatetime(rows[i].opened_at)]]
    IN  SelectSeq(parsed, LAMBDA r : r.opened_at /= NaT)

\* lines 40-42: the year, week and week_label columns.
WithWeeks(df) ==
    [i \in 1..Len(df) |->
       [assigned_to      |-> df[i].assigned_to,
        assignment_group |-> df[i].assignment_group,
        opened_at        |-> df[i].opened_at,
        year             |-> IsoCalendar(df[i].opened_at[1]).year,
        week             |-> IsoCalendar(df[i].opened_at[1]).week,
        week_label       |-> WeekLabel(df[i].opened_at[1])]]

LoadedFrame(rows) == WithWeeks(Normalize(rows))

Column(df, c) == [i \in 1..Len(df) |-> df[i][c]]

\* line 45
AssignmentGroups(df) == SortedStrings(SeqToSet(Column(df, "assignment_group")))

\* line 46
AllWeeks(df) ==
    LET ts == SeqToSet(Column(df, "opened_at"))
    IN  DateRange(MinTs(ts), MaxTs(ts))

\* line 47
AllWeekLabels(df) ==
    LET w == AllWeeks(df) IN [i \in 1..Len(w) |-> WeekLabel(w[i][1])]

\* line 48
UniqueWeeks(df) == SortedStrings(SeqToSet(AllWeekLabels(df)))

\* line 49
UniquePeople(df) == SortedStrings(SeqToSet(Column(df, "assigned_to")))

(***************************************************************************)
(* update_chart, lines 89-138, as functions of what each statement reads.  *)
(***************************************************************************)
None == <<>>

\* Truthy as `if selected_group is not None:`.
TruthyNotNone(g) == g /= None

\* `if selected_group:` (line 91): None and '' are falsy.
Truthy(g) == g /= None /\ g[1] /= EmptyStr

\* FilterGroup with the filtered frame never assigned back to df.
FilterGroupDiscarded(df, g) == df

\* lines 90-92
FilterGroup(df, g) ==
    IF Truthy(g)
    THEN SelectSeq(df, LAMBDA r : r.assignment_group = g[1])
    ELSE df

KeyLess(a, b) == StrLess(a[1], b[1]) \/ (a[1] = b[1] /\ StrLess(a[2], b[2]))

RECURSIVE SortedKeys(_)
SortedKeys(S) ==
    IF S = {} THEN <<>>
    ELSE LET m == CHOOSE x \in S : \A y \in S : x = y \/ KeyLess(x, y)
         IN  <<m>> \o SortedKeys(S \ {m})

\* lines 94-98: one row per (week_label, assigned_to) present, in key order,
\* with the number of rows of the group.
GroupBySize(df) ==
    LET keys == SortedKeys({<<df[i].week_label, df[i].assigned_to>> : i \in 1..Len(df)})
    IN  [k \in 1..Len(keys) |->
           [week_label  |-> keys[k][1],
            assigned_to |-> keys[k][2],
            count       |-> Cardinality({i \in 1..Len(df) :
                                /\ df[i].week_label = keys[k][1]
                                /\ df[i].assigned_to = keys[k][2]})]]

\* line 100: MultiIndex.from_product([weeks, people])
FullIndex(weeks, people) ==
    [k \in 1..(Len(weeks) * Len(people)) |->
       <<weeks[((k - 1) \div Len(people)) + 1], people[((k - 1) % Len(people)) + 1]>>]

\* Reindex as an inner join: only the index entries that grouped has.
ReindexInner(grouped, index) ==
    SelectSeq([k \in 1..Len(grouped) |->
                 [week_label  |-> grouped[k].week_label,
                  assigned_to |-> grouped[k].assigned_to,
                  count       |-> grouped[k].count]],
              LAMBDA row : <<row.week_label, row.assigned_to>> \in SeqToSet(index))

\* line 101: reindex(full_index, fill_value=0).reset_index()
Reindex(grouped, index) ==
    [k \in 1..Len(index) |->
       LET hit == {j \in 1..Len(grouped) :
                     /\ grouped[j].week_label = index[k][1]
                     /\ grouped[j].assigned_to = index[k][2]}
       IN  [week_label  |-> index[k][1],
            assigned_to |-> index[k][2],
            count       |-> IF hit = {} THEN 0
                            ELSE grouped[CHOOSE j \in hit : TRUE].count]]

\* lines 103-106: the week_sort column, through the dict over unique_weeks.
WithWeekSort(filled, weeks) ==
    LET week_to_date == [label \in SeqToSet(weeks) |-> WeekToDate(label)]
    IN  [k \in 1..Len(filled) |->
           [week_label  |-> filled[k].week_label,
            assigned_to |-> filled[k].assigned_to,
            count       |-> filled[k].count,
            week_sort   |-> week_to_date[filled[k].week_label]]]

RowLess(a, b) ==
    \/ a.week_sort < b.week_sort
    \/ (a.week_sort = b.week_sort /\ StrLess(a.assigned_to, b.assigned_to))

\* sort_values(by=[...]) on a frame: a stable sort.
RECURSIVE StableSort(_)
StableSort(rows) ==
    IF rows = <<>> THEN <<>>
    ELSE LET m == CHOOSE i \in 1..Len(rows) :
                    /\ \A j \in 1..Len(rows) : ~RowLess(rows[j], rows[i])
                    /\ \A j \in 1..(i - 1) : RowLess(rows[i], rows[j])
         IN  <<rows[m]>> \o
             StableSort(SubSeq(rows, 1, m - 1) \o SubSeq(rows, m + 1, Len(rows)))

\* line 107
SortValues(rows) == StableSort(rows)

\* lines 100-107
Filled(grouped, weeks, people) ==
    SortValues(WithWeekSort(Reindex(grouped, FullIndex(weeks, people)), weeks))

RECURSIVE SumCounts(_)
SumCounts(rows) ==
    IF rows = <<>> THEN 0 ELSE Head(rows).count + SumCounts(Tail(rows))

\* groupby('assigned_to')['count'].sum() (lines 118-119)
PersonTotal(filled, person) ==
    SumCounts(SelectSeq(filled, LAMBDA r : r.assigned_to = person))

RECURSIVE Arrangements(_)
Arrangements(S) ==
    IF S = {} THEN {<<>>}
    ELSE UNION {{<<x>> \o p : p \in Arrangements(S \ {x})} : x \in S}

\* lines 117-122: sort_values(ascending=False) with the default
\* kind='quicksort', which is not stable: every arrangement of the people
\* in which the totals do not increase is a possible result.
TotalsOrders(filled) ==
    {p \in Arrangements(SeqToSet(Column(filled, "assigned_to"))) :
        \A i \in 1..(Len(p) - 1) :
            PersonTotal(filled, p[i]) >= PersonTotal(filled, p[i + 1])}

\* lines 124-138: one trace per person, in the order of totals.
Traces(filled, totals) ==
    [i \in 1..Len(totals) |->
       LET person_df == SelectSeq(filled, LAMBDA r : r.assigned_to = totals[i])
       IN  [name |-> totals[i],
            x    |-> Column(person_df, "week_label"),
            y    |-> Column(person_df, "count")]]

(***************************************************************************)
(* State.                                                                  *)
(***************************************************************************)
Requests == {1, 2}

\* The values the callback is called with: nothing selected, the empty
\* selection, the two groups of the data and a group no row carries.
Filters == {None, <<EmptyStr>>, <<GroupX>>, <<Unknown>>, <<GroupZ>>}

Idle ==
    [pc |-> "idle", selected_group |-> None, df |-> <<>>, grouped |-> <<>>,
     filled |-> <<>>, totals |-> <<>>, fig |-> <<>>]

Init ==
    /\ raw \in RawDatasets
    /\ phase = "init"
    /\ combined_df = <<>>
    /\ assignment_groups = <<>>
    /\ unique_weeks = <<>>
    /\ unique_people = <<>>
    /\ req = [r \in Requests |-> Idle]

\* Lines 33-49.  With no row left, min() and max() of line 46 are NaT and
\* pd.date_range raises ValueError: the import of the module fails.
Load ==
    /\ phase = "init"
    /\ combined_df' = LoadedFrame(raw)
    /\ assignment_groups' = AssignmentGroups(combined_df')
    /\ IF combined_df' = <<>>
       THEN /\ phase' = "error"
            /\ UNCHANGED <<unique_weeks, unique_people>>
       ELSE /\ phase' = "loaded"
            /\ unique_weeks' = UniqueWeeks(combined_df')
            /\ unique_people' = UniquePeople(combined_df')
    /\ UNCHANGED <<raw, req>>

\* The whole callback, lines 89-169, for one request.  Here a behaviour makes
\* one call; calls that follow or overlap other calls are in SpecConc.
UpdateChart(r, g) ==
    /\ phase = "loaded"
    /\ req[r].pc = "idle"
    /\ \E df \in {FilterGroup(combined_df, g)} :
       \E grouped \in {GroupBySize(df)} :
       \E filled \in {Filled(grouped, unique_weeks, unique_people)} :
       \E totals \in TotalsOrders(filled) :
          req' = [req EXCEPT ![r] =
                    [pc |-> "done", selected_group |-> g, df |-> df,
                     grouped |-> grouped, filled |-> filled,
                     totals |-> totals, fig |-> Traces(filled, totals)]]
    /\ UNCHANGED <<raw, phase, base>>

Next ==
    \/ Load
    \/ \E g \in Filters : UpdateChart(1, g)

Spec == Init /\ [][Next]_vars

(***************************************************************************)
(* The callback statement by statement, for requests served by threads     *)
(* that interleave: each step reads the module-level tables when its       *)
(* statement does.                                                         *)
(***************************************************************************)
\* Mon 2023-12-25 12:00 and Wed 2024-01-03 00:00
ConcTimes == {<<0, 1>>, <<9, 0>>}

ConcDatasets ==
    SeqsUpTo({row \in RawRows :
                 row.opened_at \in ConcTimes /\ row.assigned_to /= NameB},
             MaxRows)

ConcFilters == {None, <<GroupX>>, <<Unknown>>}

InitConc ==
    /\ raw \in ConcDatasets
    /\ phase = "init"
    /\ combined_df = <<>>
    /\ assignment_groups = <<>>
    /\ unique_weeks = <<>>
    /\ unique_people = <<>>
    /\ req = [r \in Requests |-> Idle]

\* line 90: df = combined_df.copy()
CopyStep(r, g) ==
    /\ phase = "loaded"
    /\ req[r].pc \in {"idle", "done"}
    /\ req' = [req EXCEPT ![r] =
                 [Idle EXCEPT !.pc = "filter", !.selected_group = g,
                              !.df = combined_df]]
    /\ UNCHANGED <<raw, phase, base>>

\* FilterStep filtering the module-level frame itself (df bound to
\* combined_df, rows dropped in place).
FilterStepInPlace(r) ==
    /\ req[r].pc = "filter"
    /\ req' = [req EXCEPT ![r].pc = "group",
                          ![r].df = FilterGroup(req[r].df, req[r].selected_group)]
    /\ combined_df' = FilterGroup(combined_df, req[r].selected_group)
    /\ UNCHANGED <<raw, phase, assignment_groups, unique_weeks, unique_people>>

\* lines 91-92
FilterStep(r) ==
    /\ req[r].pc = "filter"
    /\ req' = [req EXCEPT ![r].pc = "group",
                          ![r].df = FilterGroup(req[r].df, req[r].selected_group)]
    /\ UNCHANGED <<raw, phase, base>>

\* lines 94-98
GroupStep(r) ==
    /\ req[r].pc = "group"
    /\ req' = [req EXCEPT ![r].pc = "reindex",
                          ![r].grouped = GroupBySize(req[r].df)]
    /\ UNCHANGED <<raw, phase, base>>

\* lines 100-101
ReindexStep(r) ==
    /\ req[r].pc = "reindex"
    /\ req' = [req EXCEPT ![r].pc = "sort",
                          ![r].filled = Reindex(req[r].grouped,
                                                FullIndex(unique_weeks, unique_people))]
    /\ UNCHANGED <<raw, phase, base>>

\* lines 103-107
SortStep(r) ==
    /\ req[r].pc = "sort"
    /\ req' = [req EXCEPT ![r].pc = "totals",
                          ![r].filled = SortValues(WithWeekSort(req[r].filled,
                                                                unique_weeks))]
    /\ UNCHANGED <<raw, phase, base>>

\* lines 116-169
TotalsStep(r) ==
    /\ req[r].pc = "totals"
    /\ \E totals \in TotalsOrders(req[r].filled) :
          req' = [req EXCEPT ![r].pc = "done",
                             ![r].totals = totals,
                             ![r].fig = Traces(req[r].filled, totals)]
    /\ UNCHANGED <<raw, phase, base>>

NextConc ==
    \/ Load
    \/ \E r \in Requests, g \in ConcFilters : CopyStep(r, g)
    \/ \E r \in Requests : FilterStep(r)
    \/ \E r \in Requests : GroupStep(r)
    \/ \E r \in Requests : ReindexStep(r)
    \/ \E r \in Requests : SortStep(r)
    \/ \E r \in Requests : TotalsStep(r)

SpecConc == InitConc /\ [][NextConc]_vars

(***************************************************************************)
(* Properties.                                                             *)
(***************************************************************************)
Done(r) == req[r].pc = "done"

\* Nothing selected: None or the empty selection.
NoFilter(g) == g = None \/ g = <<EmptyStr>>

\* The rows of combined_df that pass filter value g.
Matching(g) ==
    {i \in 1..Len(combined_df) :
        NoFilter(g) \/ combined_df[i].assignment_group = g[1]}

\* The rows of combined_df of week w and assignee a.
InCell(w, a) ==
    {i \in 1..Len(combined_df) :
        combined_df[i].week_label = w /\ combined_df[i].assigned_to = a}

\* The table of a call with no filter on the loaded tables.
UnfilteredTable ==
    Filled(GroupBySize(combined_df), unique_weeks, unique_people)

ZeroTable ==
    LET ZeroOf(table) == [k \in 1..Len(table) |-> [table[k] EXCEPT !.count = 0]]
    IN  ZeroOf(UnfilteredTable)

\* (ISO year, ISO week) read off a label "YYYY-Www".
IsoKey(label) ==
    [year |-> StrToInt(SubSeq(label, 1, 4)), week |-> StrToInt(SubSeq(label, 7, 8))]

KeyBefore(a, b) ==
    a.year < b.year \/ (a.year = b.year /\ a.week < b.week)

\* The labels of the ISO weeks from the week of the earliest opened_at to the
\* week of the latest one.
IsoSpan ==
    LET ts == SeqToSet(Column(combined_df, "opened_at"))
        lo == MinTs(ts)[1] - Weekday(MinTs(ts)[1])
        hi == MaxTs(ts)[1] - Weekday(MaxTs(ts)[1])
    IN  [i \in 1..((hi - lo) \div 7 + 1) |-> WeekLabel(lo + 7 * (i - 1))]

\* C1: count conservation - the counts of the table of a finished call sum to
\* the number of normalized rows that pass its filter.
C1_CountConservation ==
    \A r \in Requests :
        Done(r) =>
            SumCounts(req[r].filled) = Cardinality(Matching(req[r].selected_group))

\* C2: after the load of a non-empty dataset, unique_weeks holds exactly the
\* ISO weeks from the week of the earliest opened_at to the week of the latest
\* one, each once.
C2_CalendarSpanCoverage ==
    phase = "loaded" =>
        /\ SeqToSet(unique_weeks) = SeqToSet(IsoSpan)
        /\ Len(unique_weeks) = Len(IsoSpan)

\* C3: density - the table of a finished call has |unique_weeks| x
\* |unique_people| rows, exactly one for each (week, assignee) pair.
C3_Density ==
    \A r \in Requests :
        Done(r) =>
            /\ Len(req[r].filled) = Len(unique_weeks) * Len(unique_people)
            /\ \A w \in SeqToSet(unique_weeks), a \in SeqToSet(unique_people) :
                  Cardinality({k \in 1..Len(req[r].filled) :
                                  /\ req[r].filled[k].week_label = w
                                  /\ req[r].filled[k].assigned_to = a}) = 1

\* A finished call whose filter passes no row and whose table still has cells.
C3_Witness ==
    \E r \in Requests :
        /\ Done(r)
        /\ req[r].df = <<>>
        /\ Len(req[r].filled) >= 2

\* C4: once the load has run on a dataset with no row left after
\* normalization, the program is loaded with empty tables, not in error.
C4_EmptyInputNotError ==
    (phase /= "init" /\ Normalize(raw) = <<>>) =>
        /\ phase = "loaded"
        /\ unique_weeks = <<>>
        /\ unique_people = <<>>

\* C5: axis stability - whatever the filter, the weeks and the assignees that
\* appear in the table of a finished call are those of unique_weeks and
\* unique_people.
C5_AxisStability ==
    \A r \in Requests :
        Done(r) =>
            /\ SeqToSet(Column(req[r].filled, "week_label")) = SeqToSet(unique_weeks)
            /\ SeqToSet(Column(req[r].filled, "assigned_to")) = SeqToSet(unique_people)

\* C6: series order - the series come by total descending, and assignees of
\* equal total by identifier ascending.
C6_SeriesOrder ==
    \A r \in Requests :
        Done(r) =>
            \A i \in 1..Len(req[r].totals), j \in 1..Len(req[r].totals) :
                i < j =>
                    LET ti == PersonTotal(req[r].filled, req[r].totals[i])
                        tj == PersonTotal(req[r].filled, req[r].totals[j])
                    IN  \/ ti > tj
                        \/ (ti = tj /\ StrLess(req[r].totals[i], req[r].totals[j]))

\* C7: chronological order - in every series of a finished call the week keys
\* strictly increase by (ISO year, ISO week), and the series has every week
\* of unique_weeks exactly once.
C7_ChronologicalOrder ==
    \A r \in Requests :
        Done(r) =>
            \A t \in 1..Len(req[r].fig) :
                LET x == req[r].fig[t].x
                IN  /\ \A i \in 1..(Len(x) - 1) :
                          KeyBefore(IsoKey(x[i]), IsoKey(x[i + 1]))
                    /\ Len(x) = Len(unique_weeks)
                    /\ SeqToSet(x) = SeqToSet(unique_weeks)

\* A finished call with a series that crosses the year boundary.
C7_Witness ==
    \E r \in Requests :
        /\ Done(r)
        /\ \E t \in 1..Len(req[r].fig) :
              \E i \in 1..(Len(req[r].fig[t].x) - 1) :
                  IsoKey(req[r].fig[t].x[i]).year < IsoKey(req[r].fig[t].x[i + 1]).year

\* C8 as stated: a call with None, with the empty selection or with a group
\* that no row carries returns the table of the unfiltered call.
C8_UnknownIsNoFilter ==
    \A r \in Requests :
        (/\ Done(r)
         /\ \/ NoFilter(req[r].selected_group)
            \/ req[r].selected_group[1] \notin SeqToSet(assignment_groups))
        => req[r].filled = UnfilteredTable

\* C8 amended: a call with None or with the empty selection returns the table
\* of the unfiltered call; a call with a non-empty group that no row carries
\* returns the same cells with every count 0.
C8_UnselectedIsNoFilter ==
    \A r \in Requests :
        Done(r) =>
            IF NoFilter(req[r].selected_group)
            THEN req[r].filled = UnfilteredTable
            ELSE req[r].selected_group[1] \notin SeqToSet(assignment_groups)
                 => req[r].filled = ZeroTable

\* A finished call with a group no row carries, on data whose unfiltered
\* table has a count above 0.
C8_Witness ==
    \E r \in Requests :
        /\ Done(r)
        /\ req[r].selected_group = <<GroupZ>>
        /\ SumCounts(UnfilteredTable) > 0
        /\ SumCounts(req[r].filled) = 0

\* The tables as the load leaves them, from the input.
LoadedBase ==
    LET TablesOf(df) == <<df, AssignmentGroups(df), UniqueWeeks(df), UniquePeople(df)>>
    IN  TablesOf(LoadedFrame(raw))

\* The table of a first call with filter g on the tables loaded.
FirstCallTable(loaded, g) ==
    Filled(GroupBySize(FilterGroup(loaded[1], g)), loaded[3], loaded[4])

\* C9: request independence - whatever calls ran before or run alongside, the
\* module-level tables are as the load left them and the table of a finished
\* call is the one a first call with its filter returns.
C9_RequestIndependence ==
    phase = "loaded" =>
        \A loaded \in {LoadedBase} :
            /\ base = loaded
            /\ \A r \in Requests :
                  Done(r) =>
                      req[r].filled = FirstCallTable(loaded, req[r].selected_group)

\* Request 1 has finished with counts above 0 while request 2, with another
\* filter, is between its statements.
C9_Witness ==
    /\ Done(1)
    /\ SumCounts(req[1].filled) > 0
    /\ req[2].pc \in {"group", "reindex", "sort", "totals"}
    /\ req[2].selected_group /= req[1].selected_group
    /\ req[2].df /= req[1].df

\* The tables of the calls filtered by each group of the data.
GroupTables ==
    [i \in 1..Len(assignment_groups) |->
       Filled(GroupBySize(FilterGroup(combined_df, <<assignment_groups[i]>>)),
              unique_weeks, unique_people)]

\* The sum over the given tables of the count of cell k.
RECURSIVE SumOverTables(_, _)
SumOverTables(tables, k) ==
    IF tables = <<>> THEN 0
    ELSE Head(tables)[k].count + SumOverTables(Tail(tables), k)

\* C10: cell correctness - each count of the table of a finished call is the
\* number of normalized rows of that week and assignee that pass the filter,
\* and the unfiltered count of a cell is the sum of its counts over the groups.
C10_CellCorrectness ==
    \A r \in Requests :
        Done(r) =>
            /\ \A k \in 1..Len(req[r].filled) :
                  req[r].filled[k].count =
                      Cardinality(InCell(req[r].filled[k].week_label,
                                         req[r].filled[k].assigned_to)
                                  \cap Matching(req[r].selected_group))
            /\ NoFilter(req[r].selected_group) =>
                  \A tables \in {GroupTables} :
                      \A k \in 1..Len(req[r].filled) :
                          req[r].filled[k].count = SumOverTables(tables, k)

\* A finished call filtered by a group, with a cell above 0 and a cell at 0
\* whose unfiltered count is above 0.
C10_Witness ==
    \E r \in Requests :
        /\ Done(r)
        /\ req[r].selected_group = <<GroupX>>
        /\ \E k \in 1..Len(req[r].filled) : req[r].filled[k].count > 0
        /\ \E k \in 1..Len(req[r].filled) :
              req[r].filled[k].count = 0 /\ UnfilteredTable[k].count > 0

====
